---- MODULE Spec2Model ----
(***************************************************************************)
(* CrawlVaani backend: the crawl orchestration engine.                     *)
(*                                                                         *)
(* The repository holds two versions of the crawler module:                *)
(*   "queue"  src/unnamed/part_000  one shared browser, async.queue pool   *)
(*   "batch"  src/crawler.js        one browser per page, Promise.all      *)
(*                                  batches, axios fallback                *)
(* Both are modelled; impl says which one the process has loaded.          *)
(*                                                                         *)
(* JavaScript runs every stretch of code between two awaits without        *)
(* interruption, so one action is one such stretch.  Stretches that only   *)
(* follow each other through already settled promises and commute with all *)
(* other actions are folded into the action before them.                   *)
(*                                                                         *)
(* A string is a sequence of tokens (substrings), so that startsWith is    *)
(* the prefix relation on sequences.                                       *)
(***************************************************************************)
EXTENDS Integers, Sequences, FiniteSets, TLC

\* ------------------------------------------------------------------ bounds
\* MAX_PAGES is 2000 (part_000) and 50000 (crawler.js) in the source and
\* CONCURRENT_REQUESTS is 5 and 15; the model scales both down.
MAX_PAGES == 4
CONCURRENT_REQUESTS == 2
MaxRuns == 2

\* Entries of a sitemapindex document, and nested getSitemapUrls calls.
MaxEntries == 2
MaxDepth == 4

\* RATE_LIMIT_WINDOW is one hour and MAX_REQUESTS_PER_HOUR is 5 in the source;
\* the model counts time in ticks and scales both down.  The clock stops at
\* MaxTime.
RATE_LIMIT_WINDOW == 2
MAX_REQUESTS_PER_HOUR == 2
MaxTime == 3

\* ------------------------------------------------------------- the strings
O  == "https://ex.com"
EV == ".evil.org"
XO == "https://other.org"

Home  == <<O, "/">>
PageA == <<O, "/", "a">>
PageB == <<O, "/", "b">>
PageC == <<O, "/", "c">>
Evil  == <<O, EV, "/">>
Other == <<XO, "/">>

\* s.startsWith(p)
StartsWith(s, p) == Len(p) <= Len(s) /\ SubSeq(s, 1, Len(p)) = p

\* s.endsWith("/")
EndsWithSlash(s) == s # <<>> /\ s[Len(s)] = "/"

\* s.startsWith("http")
StartsWithHttp(s) == s # <<>> /\ s[1] \in {O, XO}

\* s.startsWith("mailto:") || "tel:" || "javascript:" || "data:" || "blob:"
NonCrawlableScheme(s) ==
    s # <<>> /\ s[1] \in {"mailto:", "tel:", "javascript:", "data:", "blob:"}

\* href.split("#")[0].trim()
RECURSIVE SplitHash(_)
SplitHash(s) ==
    IF s = <<>> \/ s[1] = "#top" THEN <<>> ELSE <<s[1]>> \o SplitHash(Tail(s))

\* The index of the first "/" token of s, or Len(s) + 1.
RECURSIVE FirstSlash(_, _)
FirstSlash(s, i) ==
    IF i > Len(s) \/ s[i] = "/" THEN i ELSE FirstSlash(s, i + 1)

\* new URL(s) succeeds
ValidUrl(s) == StartsWithHttp(s) \/ NonCrawlableScheme(s)

\* new URL(s).origin, for an http(s) URL: scheme, host and port
Origin(s) == SubSeq(s, 1, FirstSlash(s, 1) - 1)

\* new URL(s).href: an http(s) URL with an empty path gets the path "/"
Href(s) ==
    IF StartsWithHttp(s) /\ FirstSlash(s, 1) > Len(s) THEN s \o <<"/">> ELSE s

normalizeUrl(url) == IF ValidUrl(url) THEN Href(url) ELSE url

\* new URL(rel, b) throws
ResolveThrows(rel, b) == rel[1] = "//"

\* new URL(rel, b).href for rel that does not start with "http"
Resolve(rel, b) ==
    IF rel[1] = "/" THEN Origin(b) \o rel ELSE b \o rel

\* ---------------------------------------------------------------- the site
\* The documents the remote server returns, by the URL the browser requests:
\* the hash of the body text, the hrefs of the anchors, whether an embedded
\* resource of the page is unreachable, and whether the extraction code throws
\* on the document.  PageA and PageB have the same text and both link to PageC, whose
\* extraction throws and which links back to PageB; Home lists every kind
\* of href.
Doc(hash, links, brokenResource, throws) ==
    [hash |-> hash, links |-> links, brokenResource |-> brokenResource,
     throws |-> throws]

Site ==
    ( Home  :> Doc("H1", << <<"/", "a">>, <<O, "/", "b">>, <<O>>, Other, Evil,
                            <<"mailto:">>, <<"//">>, <<"#top">> >>, TRUE, FALSE) ) @@
    ( PageA :> Doc("H2", << <<"/", "a", "#top">>, <<"/", "c">> >>, FALSE, FALSE) ) @@
    ( PageB :> Doc("H2", << <<"/", "a">>, <<"/", "c">> >>, FALSE, FALSE) ) @@
    ( PageC :> Doc("H3", << <<"/", "b">> >>, FALSE, TRUE) ) @@
    ( Evil  :> Doc("H4", << >>, FALSE, FALSE) ) @@
    ( Other :> Doc("H5", << >>, FALSE, FALSE) )

\* The server has a document for url.
Fetchable(url) == StartsWithHttp(url) /\ Href(url) \in DOMAIN Site

\* The seeds a caller passes to runCrawl.
Seeds == { <<O>>, Home }

\* ------------------------------------------------------------ the sitemaps
SmA == << O, "/", "sitemap.xml" >>
SmB == << O, "/", "sitemap-b.xml" >>
SmC == << O, "/", "sitemap-c.xml" >>

SitemapUrls == {SmA, SmB, SmC}

\* An entry (<url> or <sitemap>) without a <loc> child: x.loc is undefined.
NoLoc == << >>

\* What axios.get + xml2js give for a sitemap URL: a urlset, a sitemapindex, or
\* a failure (network error, bad status, text that does not parse).
SmDoc(kind, entries) == [kind |-> kind, entries |-> entries]

ErrorDoc == SmDoc("error", << >>)

UrlsetDocs ==
    { SmDoc("urlset", e) :
        e \in { << >>, << PageC >>, << PageC, Other >>, << Other, NoLoc >>,
                 << << O >>, Other >> } }

IndexDocs ==
    { SmDoc("sitemapindex", e) :
        e \in UNION { [1..n -> SitemapUrls \cup {NoLoc}] : n \in 0..MaxEntries } }

\* getSitemapUrls(sitemapUrl, seen) as a function of the documents: the list it
\* returns and the set seen as it leaves it.  SitemapLoop is its for loop over
\* the entries of a sitemapindex; threw says that an entry had no loc.
RECURSIVE getSitemapUrls(_, _, _)
RECURSIVE SitemapLoop(_, _, _, _)
getSitemapUrls(docs, sitemapUrl, seen) ==
    IF sitemapUrl \in seen THEN [urls |-> << >>, seen |-> seen]
    ELSE
      LET parsed == docs[sitemapUrl]
          seen1  == seen \cup {sitemapUrl}
      IN IF parsed.kind = "urlset" /\ parsed.entries # << >>
         THEN [urls |-> IF \E k \in DOMAIN parsed.entries : parsed.entries[k] = NoLoc
                        THEN << >> ELSE parsed.entries,
               seen |-> seen1]
         ELSE IF parsed.kind = "sitemapindex" /\ parsed.entries # << >>
         THEN LET r == SitemapLoop(docs, parsed.entries, seen1, << >>) IN
              [urls |-> IF r.threw THEN << >> ELSE r.urls, seen |-> r.seen]
         ELSE [urls |-> << >>, seen |-> seen1]

SitemapLoop(docs, entries, seen, urls) ==
    IF entries = << >> THEN [urls |-> urls, seen |-> seen, threw |-> FALSE]
    ELSE IF Head(entries) = NoLoc THEN [urls |-> urls, seen |-> seen, threw |-> TRUE]
    ELSE LET sub == getSitemapUrls(docs, Head(entries), seen) IN
         SitemapLoop(docs, Tail(entries), sub.seen, urls \o sub.urls)

\* The sitemaps a crawled site can have: two urlsets that list the same page;
\* an index with a failing child and a child that lists the seed without its
\* slash and a page of another origin; a sitemap.xml that cannot be fetched or
\* parsed; an empty urlset; an index with an entry that has no loc.
SiteDup ==
    (SmA :> SmDoc("sitemapindex", << SmB, SmC >>)) @@
    (SmB :> SmDoc("urlset", << PageC >>)) @@ (SmC :> SmDoc("urlset", << PageC >>))

SiteChildFails ==
    (SmA :> SmDoc("sitemapindex", << SmB, SmC >>)) @@
    (SmB :> ErrorDoc) @@ (SmC :> SmDoc("urlset", << << O >>, Other >>))

SiteGarbage == (SmA :> ErrorDoc) @@ (SmB :> ErrorDoc) @@ (SmC :> ErrorDoc)

SiteEmpty ==
    (SmA :> SmDoc("urlset", << >>)) @@ (SmB :> ErrorDoc) @@ (SmC :> ErrorDoc)

SiteMalformed ==
    (SmA :> SmDoc("sitemapindex", << SmB, NoLoc >>)) @@
    (SmB :> SmDoc("urlset", << PageC >>)) @@ (SmC :> ErrorDoc)

\* A urlset whose locs are not crawlable: a mailto: address and a relative path.
SiteNonCrawlable ==
    (SmA :> SmDoc("urlset", << << "mailto:" >>, << "/", "a" >> >>)) @@
    (SmB :> ErrorDoc) @@ (SmC :> ErrorDoc)

SitemapSites == { SiteDup, SiteChildFails, SiteGarbage, SiteEmpty, SiteMalformed,
                  SiteNonCrawlable }

\* The lists getSitemapUrls(base + "sitemap.xml") can return.
SitemapResults == { getSitemapUrls(site, SmA, {}).urls : site \in SitemapSites }

\* What runCrawl's own GET of base + "sitemap.xml" (validateStatus: null) can
\* do: reject, answer with a status other than 200, answer 200.
SitemapProbes == { "reject", "404", "200" }

EmptyMap == [x \in {} |-> x]

\* No browser launched for the run: its state, the calls of browser.close()
\* so far, and whether a close was called with a crawlPage in flight.
NoBrowser == [state |-> "none", closes |-> 0, busyAtClose |-> FALSE]

\* What puppeteer.launch does.
LaunchOutcomes == { "ok", "fails" }

\* No sitemap discovery has run (crawler.js only logs whether sitemap.xml exists).
NoSitemap == [probe |-> "none", site |-> EmptyMap, urls |-> << >>]

\* The errors a render can fail with (puppeteer errors carry no response and
\* no code) and the errors the fallback GET can fail with (axios errors).
NoError == [response |-> "", code |-> "", message |-> ""]
RenderErrors == { [response |-> "", code |-> "", message |-> "Navigation timeout"] }
ExtractError == [response |-> "", code |-> "", message |-> "TypeError"]
AxiosErrors ==
    { [response |-> "404", code |-> "ERR_BAD_REQUEST", message |-> "status 404"],
      [response |-> "", code |-> "ECONNREFUSED", message |-> "connect ECONNREFUSED"] }

\* err.response?.status || err.code || err.message || "Unknown Error"
StatusOf(err) ==
    IF err.response # "" THEN err.response
    ELSE IF err.code # "" THEN err.code
    ELSE IF err.message # "" THEN err.message
    ELSE "Unknown Error"

\* ---------------------------------------------------------------- helpers
Range(s) == { s[i] : i \in DOMAIN s }

\* The records of array arr whose url is u.
RecordsOf(arr, u) == { i \in DOMAIN arr : arr[i].url = u }

\* --------------------------------------------------------------- the server
\* The clients and what they send: the endpoint, the token they present (the
\* reports access token, another one, none) and the report file they name.
Ips == { "ip1", "ip2" }
Tokens == { "none", "wrong", "valid" }
ReportsEndpoints == { "list", "pdf", "excel" }
Endpoints == { "crawl" } \cup ReportsEndpoints
ReportFiles == { "SEO-Report-ex-com.xlsx" }
FileNames == ReportFiles \cup { "no-such-file.xlsx" }

NoResponse == [endpoint |-> "", token |-> "", status |-> 0, data |-> FALSE]

\* ------------------------------------------------------------------ state
VARIABLES
    impl,                    \* "queue" (part_000) or "batch" (crawler.js)
    phase,                   \* "idle", "crawl" (workers running), "done"; "failed", "aborted", "overlap"
    runs,                    \* runCrawl calls so far
    base,                    \* runCrawl's base
    baseDomain,              \* runCrawl's baseDomain
    visited,                 \* the Set visited
    queue,                   \* generateReport's array queue
    scheduled,               \* generateReport's Set scheduled (part_000)
    q,                       \* the tasks waiting in async.queue (part_000)
    tasks,                   \* the crawlPage calls in flight
    workingLinks,
    brokenLinks,
    externalLinks,
    duplicateContentIssues,
    brokenResources,
    contentHashes,           \* the Map contentHashes, hash -> url
    pagesScanned,
    performanceMetrics,      \* pagesCrawled and errors
    admissions,              \* history: per key, the crawlPage calls that passed the visited check
    fetchLog,                \* history: per admitted key, what its fetches did
    frontierLog,             \* history: the strings link processing pushed onto queue
    seedLog,                 \* history: the strings runCrawl seeded queue with
    sitemapLog,              \* history: what runCrawl's sitemap discovery got
    resources,               \* the pages and browsers the run has opened, "open" or "released"
    sharedBrowser,           \* part_000: the browser generateReport launches for the whole run
    smDocs,                  \* the sitemap documents the server holds, by URL
    smStack,                 \* the getSitemapUrls calls in progress, innermost last
    smSeen,                  \* the Set seen of the resolution
    smResult,                \* what the outermost getSitemapUrls call returned
    smPc,                    \* "off", "run", "done"
    smFetches,               \* history: per sitemap URL, the axios.get calls made
    smParent,                \* history: per fetched sitemap, the sitemap whose call fetched it
    smRevisits,              \* history: the sitemap URLs met again after they were seen
    now,                     \* the server's clock, Date.now(), in ticks
    requestCounts,           \* the Map requestCounts, ip -> {count, resetTime}
    lastCleanup,             \* the tick of the last run of the setInterval clean-up
    passLog,                 \* history: per ip, the ticks at which rateLimit called next()
    lastResponse             \* the response the server sent last

smVars == << smDocs, smStack, smSeen, smResult, smPc, smFetches, smParent,
            smRevisits >>

crawlVars == << impl, phase, runs, base, baseDomain, visited, queue, scheduled,
                q, tasks, workingLinks, brokenLinks, externalLinks,
                duplicateContentIssues, brokenResources, contentHashes,
                pagesScanned, performanceMetrics, admissions, fetchLog,
                frontierLog, seedLog, sitemapLog, resources, sharedBrowser >>

srvVars == << now, requestCounts, lastCleanup, passLog, lastResponse >>

vars == << crawlVars, smVars, srvVars >>

results == << workingLinks, brokenLinks, externalLinks, duplicateContentIssues,
              brokenResources >>

NoFetch == [primary |-> "none", fallback |-> "none", error |-> NoError,
            fallbackError |-> NoError, links |-> FALSE]

\* The module as loaded: the top-level declarations of the crawler.
Loaded ==
    /\ phase = "idle"
    /\ runs = 0
    /\ base = << >>
    /\ baseDomain = << >>
    /\ visited = {}
    /\ queue = << >>
    /\ scheduled = {}
    /\ q = << >>
    /\ tasks = {}
    /\ workingLinks = << >>
    /\ brokenLinks = << >>
    /\ externalLinks = << >>
    /\ duplicateContentIssues = << >>
    /\ brokenResources = << >>
    /\ contentHashes = EmptyMap
    /\ pagesScanned = 0
    /\ performanceMetrics = [pagesCrawled |-> 0, errors |-> 0]
    /\ admissions = EmptyMap
    /\ fetchLog = EmptyMap
    /\ frontierLog = {}
    /\ seedLog = {}
    /\ sitemapLog = NoSitemap
    /\ resources = EmptyMap
    /\ sharedBrowser = NoBrowser

\* No sitemap resolution is being looked at.
SmOff ==
    /\ smDocs = EmptyMap
    /\ smStack = << >>
    /\ smSeen = {}
    /\ smResult = << >>
    /\ smPc = "off"
    /\ smFetches = EmptyMap
    /\ smParent = EmptyMap
    /\ smRevisits = {}

\* The server as started: no request counted, none answered.
SrvLoaded ==
    /\ now = 0
    /\ requestCounts = EmptyMap
    /\ lastCleanup = 0
    /\ passLog = [ip \in Ips |-> << >>]
    /\ lastResponse = NoResponse

Init ==
    /\ impl \in {"queue", "batch"}
    /\ Loaded
    /\ SmOff
    /\ SrvLoaded

\* ------------------------------------------------- crawlPage, the pieces
\* Mutants of the visited check: without visited.has, without the budget
\* test, and with the budget test off by one.
PassesVisitedCheck_NoHas(currentUrl, vis) ==
    ~ (Cardinality(vis) >= MAX_PAGES)

PassesVisitedCheck_NoBudget(currentUrl, vis) ==
    ~ (currentUrl \in vis)

PassesVisitedCheck_OffByOne(currentUrl, vis) ==
    ~ (currentUrl \in vis \/ Cardinality(vis) >= MAX_PAGES - 1)

\* The visited check at the head of crawlPage: TRUE when the call goes on.
PassesVisitedCheck(currentUrl, vis) ==
    ~ (currentUrl \in vis \/ Cardinality(vis) >= MAX_PAGES)

BudgetLeft_Always(vis) == TRUE

\* visited.size < MAX_PAGES
BudgetLeft(vis) == Cardinality(vis) < MAX_PAGES

\* contentHashes.has(hash) ? push a duplicate record : contentHashes.set
DuplicateRecords(currentUrl, hash, hashes, dups) ==
    IF hash \in DOMAIN hashes
    THEN Append(dups, [url |-> currentUrl, duplicateOf |-> hashes[hash]])
    ELSE dups

RecordHash(currentUrl, hash, hashes) ==
    IF hash \in DOMAIN hashes THEN hashes ELSE hashes @@ (hash :> currentUrl)

\* The href as link processing sees it, or << >> when the link is skipped.
FullHref(href, b) ==
    LET cleaned == SplitHash(href) IN
    IF cleaned = << >> \/ NonCrawlableScheme(cleaned) THEN << >>
    ELSE IF StartsWithHttp(cleaned) THEN cleaned
    ELSE IF ResolveThrows(cleaned, b) THEN << >>
    ELSE Resolve(cleaned, b)

\* fullHref.startsWith(base) || fullHref.startsWith(baseDomain)
IsInternal(fullHref, b, bd) == StartsWith(fullHref, b) \/ StartsWith(fullHref, bd)

\* links.forEach of crawlPage: st is [queue, externalLinks]
RECURSIVE ProcessLinks(_, _, _, _, _, _)
ProcessLinks(links, currentUrl, b, bd, vis, st) ==
    IF links = << >> THEN st
    ELSE
      LET fullHref == FullHref(Head(links), b)
          next ==
            IF fullHref = << >> THEN st
            ELSE IF IsInternal(fullHref, b, bd)
            THEN IF /\ BudgetLeft(vis)
                    /\ fullHref \notin vis
                    /\ fullHref \notin Range(st.queue)
                 THEN [st EXCEPT !.queue = Append(@, fullHref)]
                 ELSE st
            ELSE [st EXCEPT !.externalLinks =
                               Append(@, [from |-> currentUrl, to |-> fullHref])]
      IN ProcessLinks(Tail(links), currentUrl, b, bd, vis, next)

\* extractLinks: the linkData records of the hrefs that do not start with base
RECURSIVE extractLinks(_, _, _)
extractLinks(links, currentUrl, b) ==
    IF links = << >> THEN << >>
    ELSE
      LET href == SplitHash(Head(links))
          skip == \/ href = << >>
                  \/ href[1] \in {"mailto:", "tel:", "javascript:"}
                  \/ (~ StartsWithHttp(href) /\ ResolveThrows(href, b))
          fullHref == IF StartsWithHttp(href) THEN href ELSE Resolve(href, b)
          rest == extractLinks(Tail(links), currentUrl, b)
      IN IF skip \/ StartsWith(fullHref, b) THEN rest
         ELSE << [from |-> currentUrl, to |-> fullHref, isInternal |-> FALSE] >> \o rest

\* The failed check is not recorded.
ResourceChecks_Unrecorded(currentUrl, broken) == broken

\* The image a page with an unreachable resource embeds: src "img.png",
\* resolved against the page.
ImgOf(currentUrl) == Resolve(<< "img.png" >>, currentUrl)

\* The resource checks of a page, settled: axios.head(...).catch(push)
ResourceChecks(currentUrl, broken) ==
    IF Site[Href(currentUrl)].brokenResource
    THEN Append(broken, [url |-> currentUrl, resource |-> ImgOf(currentUrl),
                         type |-> "image", status |-> "404"])
    ELSE broken

\* The strings the link processing of a page appended to queue.
NewlyQueued(before, after) == Range(after) \ Range(before)

\* The success path of crawlPage from the fetched document to the end of the
\* link analysis: duplicate detection, link processing, extractLinks.
\* (crawler.js awaits page.$$eval between the first and the other two.)
AfterLinks(currentUrl) ==
    LET doc == Site[Href(currentUrl)]
        st  == ProcessLinks(doc.links, currentUrl, base, baseDomain, visited,
                            [queue |-> queue, externalLinks |-> externalLinks])
    IN [queue |-> st.queue,
        externalLinks |-> st.externalLinks \o extractLinks(doc.links, currentUrl, base)]

Admit(url, currentUrl) ==
    /\ visited' = visited \cup {currentUrl}
    /\ pagesScanned' = pagesScanned + 1
    /\ performanceMetrics' = [performanceMetrics EXCEPT !.pagesCrawled = @ + 1]
    /\ admissions' = IF currentUrl \in DOMAIN admissions
                     THEN [admissions EXCEPT ![currentUrl] = @ + 1]
                     ELSE admissions @@ (currentUrl :> 1)
    /\ fetchLog' = IF currentUrl \in DOMAIN fetchLog THEN fetchLog
                   ELSE fetchLog @@ (currentUrl :> NoFetch)

\* ------------------------------------------------------ rendering resources
\* resources maps << kind, url >> to "open" from the call that created the
\* resource (browser.newPage, puppeteer.launch, chrome-launcher's launch) and
\* to "released" from its close() or kill().
Acquire(res, kind, url) ==
    [k \in DOMAIN res \cup { << kind, url >> } |->
        IF k = << kind, url >> THEN "open" ELSE res[k]]

Release(res, kind, url) ==
    [k \in DOMAIN res |-> IF k = << kind, url >> THEN "released" ELSE res[k]]

\* Where a failing render fails: in the call that creates the page or browser,
\* or after it (goto, content).
RenderFailsAt == { "acquire", "navigate" }

\* part_000: page = await browser.newPage(); ...; await page.close()
RenderPage(res, url) == Release(Acquire(res, "page", url), "page", url)

\* part_000, catch: if (page) { try { await page.close() } catch {} }
CatchClose(res, url) == Release(res, "page", url)

\* crawler.js, finally: if (browser) { try { await browser.close() } catch ... }
FinallyClose(res, url) == Release(res, "browser", url)

\* runLighthouseAnalysis of crawler.js, called for the main page only: launch
\* rejects; lighthouse() returns and chrome.kill() runs; or lighthouse()
\* rejects and the catch returns the failed results.
LighthouseOutcomes == { "none", "launch fails", "ok", "audit fails" }

runLighthouseAnalysis(res, url, lh) ==
    IF lh = "ok" THEN Release(Acquire(res, "chrome", url), "chrome", url)
    ELSE IF lh = "audit fails" THEN Acquire(res, "chrome", url)
    ELSE res

\* -------------------------------------------------------------- runCrawl
\* for (const url of sitemapUrls) if (!visited.has(url) && !queue.includes(url)) queue.push(url)
RECURSIVE QueueSitemapUrls(_, _, _)
QueueSitemapUrls(sitemapUrls, vis, qu) ==
    IF sitemapUrls = << >> THEN qu
    ELSE LET url == Head(sitemapUrls) IN
         QueueSitemapUrls(Tail(sitemapUrls), vis,
            IF url \notin vis /\ url \notin Range(qu) THEN Append(qu, url) ELSE qu)

\* The URLs the sitemap discovery hands to the queueing loop: getSitemapUrls
\* is called only when the probe answered 200.
SitemapUrlsOf(probe, found) == IF probe = "200" THEN found ELSE << >>

SeedPhase_Uncaught(probe) == IF probe = "reject" THEN "failed" ELSE "crawl"

\* The discovery sits in try { ... } catch { sitemap.xml missing }: whatever
\* the probe did, generateReport goes on to the crawl.
SeedPhase(probe) == "crawl"

\* const browser = await puppeteer.launch(...): a rejection leaves
\* generateReport, and runCrawl, rejected; nothing after it runs.
AfterLaunch(launch, ph) == IF ph = "crawl" /\ launch = "fails" THEN "aborted" ELSE ph

\* The reset at the head of runCrawl. contentHashes is not among the
\* structures the code clears.
ResetState ==
    /\ visited' = {}
    /\ workingLinks' = << >>
    /\ brokenLinks' = << >>
    /\ externalLinks' = << >>
    /\ duplicateContentIssues' = << >>
    /\ brokenResources' = << >>
    /\ pagesScanned' = 0
    /\ performanceMetrics' = [pagesCrawled |-> 0, errors |-> 0]
    /\ UNCHANGED contentHashes

\* runCrawl(targetUrl) up to the point where the workers start: the reset,
\* base and baseDomain, the seeded queue, the sitemap discovery (part_000 only;
\* site is what the server holds, a failed probe is paired with SiteGarbage).
RunCrawl ==
    /\ phase \in {"idle", "done", "failed", "aborted"}
    /\ runs < MaxRuns
    /\ \E targetUrl \in Seeds, probe \in SitemapProbes, site \in SitemapSites,
          launch \in LaunchOutcomes :
         LET b == IF EndsWithSlash(targetUrl) THEN targetUrl ELSE targetUrl \o <<"/">>
             sitemapUrl == b \o << "sitemap.xml" >>
             sitemapUrls == SitemapUrlsOf(probe, getSitemapUrls(site, sitemapUrl, {}).urls)
         IN
         /\ probe # "200" => site = SiteGarbage
         /\ ResetState
         /\ base' = b
         /\ baseDomain' = Origin(targetUrl)
         /\ IF impl = "queue"
            THEN /\ queue' = QueueSitemapUrls(sitemapUrls, {}, << normalizeUrl(b) >>)
                 /\ sitemapLog' = [probe |-> probe, site |-> site, urls |-> sitemapUrls]
                 /\ phase' = AfterLaunch(launch, SeedPhase(probe))
                 /\ q' = IF phase' = "crawl" THEN << normalizeUrl(b) >> ELSE << >>
                 /\ sharedBrowser' = IF phase' = "crawl"
                                        THEN [NoBrowser EXCEPT !.state = "open"]
                                        ELSE NoBrowser
            ELSE /\ probe = "reject" /\ launch = "ok"
                 /\ sharedBrowser' = NoBrowser
                 /\ queue' = << b >>
                 /\ q' = << >>
                 /\ sitemapLog' = NoSitemap
                 /\ phase' = "crawl"
    /\ scheduled' = {}
    /\ tasks' = {}
    /\ runs' = runs + 1
    /\ admissions' = EmptyMap
    /\ fetchLog' = EmptyMap
    /\ frontierLog' = {}
    /\ seedLog' = Range(queue')
    /\ resources' = EmptyMap
    /\ UNCHANGED impl

\* ------------------------------------------- part_000: the async.queue pool
\* The worker does not hand the queue over to the pool.
DrainQueue_Never(qu, qq, sched, vis) == [queue |-> qu, q |-> qq]

\* while (queue.length > 0 && visited.size < MAX_PAGES) { shift; q.push unless scheduled }
RECURSIVE DrainQueue(_, _, _, _)
DrainQueue(qu, qq, sched, vis) ==
    IF qu # << >> /\ BudgetLeft(vis)
    THEN DrainQueue(Tail(qu),
                    IF Head(qu) \notin sched THEN Append(qq, Head(qu)) ELSE qq,
                    sched, vis)
    ELSE [queue |-> qu, q |-> qq]

\* crawlPage rejects: the worker never reaches its done().
QReturn_Throws(t, qu, qq, sched) ==
    /\ tasks' = (tasks \ {t}) \cup {[url |-> t.url, cur |-> t.url, pc |-> "thrown"]}
    /\ queue' = qu
    /\ q' = qq

\* The worker after crawlPage has returned: hand queue over to q, done().
QReturn(t, qu, qq, sched) ==
    LET d == DrainQueue(qu, qq, sched, visited') IN
    /\ tasks' = tasks \ {t}
    /\ queue' = d.queue
    /\ q' = d.q

\* A worker of the pool takes the next task: the two early done()s, then
\* crawlPage up to its first await.
Q_Worker ==
    /\ impl = "queue" /\ phase = "crawl"
    /\ q # << >>
    /\ Cardinality(tasks) < CONCURRENT_REQUESTS
    /\ LET url == Head(q)
           currentUrl == normalizeUrl(url)
       IN IF Cardinality(visited) >= MAX_PAGES \/ url \in scheduled
          THEN /\ q' = Tail(q)
               /\ UNCHANGED << queue, scheduled, tasks, visited, pagesScanned,
                               performanceMetrics, admissions, fetchLog >>
          ELSE /\ scheduled' = scheduled \cup {url}
               /\ IF PassesVisitedCheck(currentUrl, visited)
                  THEN /\ Admit(url, currentUrl)
                       /\ tasks' = tasks \cup {[url |-> url, cur |-> currentUrl, pc |-> "delay"]}
                       /\ q' = Tail(q)
                       /\ UNCHANGED queue
                  ELSE /\ UNCHANGED << visited, pagesScanned, performanceMetrics,
                                       admissions, fetchLog >>
                       /\ QReturn([url |-> url], queue, Tail(q), scheduled')
    /\ UNCHANGED << impl, phase, runs, base, baseDomain, results, contentHashes,
                    frontierLog,
                    seedLog, sitemapLog, resources, sharedBrowser >>

\* The render of an admitted page fails (newPage, goto, content or close
\* rejects): the catch closes the page and records the URL as broken.
Q_RenderFails(t) ==
    /\ impl = "queue" /\ t \in tasks /\ t.pc = "delay"
    /\ \E at \in RenderFailsAt :
         resources' = CatchClose(IF at = "navigate"
                                 THEN Acquire(resources, "page", t.cur)
                                 ELSE resources, t.cur)
    /\ \E err \in RenderErrors :
         /\ brokenLinks' = Append(brokenLinks, [url |-> t.cur, status |-> err.message])
         /\ fetchLog' = [fetchLog EXCEPT ![t.cur].primary = "fail", ![t.cur].error = err]
    /\ UNCHANGED visited
    /\ QReturn(t, queue, q, scheduled)
    /\ UNCHANGED << impl, phase, runs, base, baseDomain, scheduled, workingLinks,
                    externalLinks, duplicateContentIssues, brokenResources,
                    contentHashes, pagesScanned, performanceMetrics, admissions,
                    frontierLog,
                    seedLog, sitemapLog, sharedBrowser >>

\* The render returns the document: duplicate detection, link processing and
\* extraction, up to await Promise.all(resourceChecks); or the extraction
\* throws and the catch records the URL as broken.
Q_Render(t) ==
    /\ impl = "queue" /\ t \in tasks /\ t.pc = "delay"
    /\ Fetchable(t.cur)
    /\ LET doc == Site[Href(t.cur)]
           al  == AfterLinks(t.cur)
       IN /\ duplicateContentIssues' =
                 DuplicateRecords(t.cur, doc.hash, contentHashes, duplicateContentIssues)
          /\ contentHashes' = RecordHash(t.cur, doc.hash, contentHashes)
          /\ externalLinks' = al.externalLinks
          /\ frontierLog' = frontierLog \cup NewlyQueued(queue, al.queue)
          /\ UNCHANGED visited
          /\ resources' = IF doc.throws
                             THEN CatchClose(RenderPage(resources, t.cur), t.cur)
                             ELSE RenderPage(resources, t.cur)
          /\ IF doc.throws
               THEN /\ brokenLinks' = Append(brokenLinks,
                          [url |-> t.cur, status |-> ExtractError.message])
                    /\ fetchLog' = [fetchLog EXCEPT ![t.cur].primary = "ok",
                                       ![t.cur].error = ExtractError, ![t.cur].links = TRUE]
                    /\ QReturn(t, al.queue, q, scheduled)
               ELSE /\ UNCHANGED brokenLinks
                    /\ fetchLog' = [fetchLog EXCEPT ![t.cur].primary = "ok",
                                       ![t.cur].links = TRUE]
                    /\ tasks' = (tasks \ {t}) \cup {[t EXCEPT !.pc = "checks"]}
                    /\ queue' = al.queue
                    /\ UNCHANGED q
    /\ UNCHANGED << impl, phase, runs, base, baseDomain, scheduled, workingLinks,
                    brokenResources, pagesScanned, performanceMetrics, admissions,
                    seedLog, sitemapLog, sharedBrowser >>

\* The resource checks have settled: the page is a working link.
Q_Settle(t) ==
    /\ impl = "queue" /\ t \in tasks /\ t.pc = "checks"
    /\ brokenResources' = ResourceChecks(t.cur, brokenResources)
    /\ workingLinks' = Append(workingLinks, [url |-> t.cur, status |-> "200"])
    /\ UNCHANGED visited
    /\ QReturn(t, queue, q, scheduled)
    /\ UNCHANGED << impl, phase, runs, base, baseDomain, scheduled, brokenLinks,
                    externalLinks, duplicateContentIssues, contentHashes,
                    pagesScanned, performanceMetrics, admissions, fetchLog,
                    frontierLog,
                    seedLog, sitemapLog, resources, sharedBrowser >>

\* browser.close() is left out.
BrowserClose_Skipped(br, inFlight) == br

\* await browser.close()
BrowserClose(br, inFlight) ==
    [state |-> "closed", closes |-> br.closes + 1,
     busyAtClose |-> br.busyAtClose \/ inFlight # {}]

\* await q.drain() resolves: the pool is idle; browser.close and the report.
Q_Drain ==
    /\ impl = "queue" /\ phase = "crawl"
    /\ q = << >> /\ tasks = {}
    /\ phase' = "done"
    /\ sharedBrowser' = BrowserClose(sharedBrowser, tasks)
    /\ UNCHANGED << impl, runs, base, baseDomain, visited, queue, scheduled, q,
                    tasks, results, contentHashes, pagesScanned,
                    performanceMetrics, admissions, fetchLog, frontierLog,
                    seedLog, sitemapLog, resources >>

\* --------------------------------------------- crawler.js: the batch loop
\* The head of crawlPage for every link of a batch, in order: st is
\* [visited, tasks, admissions, fetchLog].
RECURSIVE StartBatch(_, _)
StartBatch(batch, st) ==
    IF batch = << >> THEN st
    ELSE LET link == Head(batch) IN
         StartBatch(Tail(batch),
            IF PassesVisitedCheck(link, st.visited)
            THEN [visited |-> st.visited \cup {link},
                  tasks |-> st.tasks \cup {[url |-> link, cur |-> link, pc |-> "delay"]},
                  admissions |-> IF link \in DOMAIN st.admissions
                                 THEN [st.admissions EXCEPT ![link] = @ + 1]
                                 ELSE st.admissions @@ (link :> 1),
                  fetchLog |-> IF link \in DOMAIN st.fetchLog THEN st.fetchLog
                               ELSE st.fetchLog @@ (link :> NoFetch)]
            ELSE st)

\* The whole queue is started at once.
BatchOf_All(qu) == qu

\* queue.splice(0, CONCURRENT_REQUESTS)
BatchOf(qu) == SubSeq(qu, 1, IF Len(qu) < CONCURRENT_REQUESTS THEN Len(qu)
                                                               ELSE CONCURRENT_REQUESTS)

RestOf(qu) == SubSeq(qu, Len(BatchOf(qu)) + 1, Len(qu))

\* One turn of while (queue.length > 0 && visited.size < MAX_PAGES): the
\* batch is cut off the queue and every crawlPage of it runs to its first await.
B_Batch ==
    /\ impl = "batch" /\ phase = "crawl"
    /\ tasks = {}
    /\ queue # << >> /\ Cardinality(visited) < MAX_PAGES
    /\ LET st == StartBatch(BatchOf(queue),
                    [visited |-> visited, tasks |-> {}, admissions |-> admissions,
                     fetchLog |-> fetchLog])
       IN /\ visited' = st.visited
          /\ tasks' = st.tasks
          /\ admissions' = st.admissions
          /\ fetchLog' = st.fetchLog
          /\ pagesScanned' = pagesScanned + Cardinality(st.tasks)
          /\ performanceMetrics' =
                [performanceMetrics EXCEPT !.pagesCrawled = @ + Cardinality(st.tasks)]
    /\ queue' = RestOf(queue)
    /\ UNCHANGED << impl, phase, runs, base, baseDomain, scheduled, q, results,
                    contentHashes, frontierLog,
                    seedLog, sitemapLog, resources, sharedBrowser >>

\* The catch of crawlPage up to the fallback GET: the error is counted and
\* the URL recorded as broken, then axios.get is awaited.
BCatch(t, err) ==
    /\ performanceMetrics' = [performanceMetrics EXCEPT !.errors = @ + 1]
    /\ brokenLinks' = Append(brokenLinks, [url |-> t.cur, status |-> StatusOf(err)])
    /\ tasks' = (tasks \ {t}) \cup {[t EXCEPT !.pc = "fallback"]}

\* The render fails (launch, newPage, goto or content rejects).
B_RenderFails(t) ==
    /\ impl = "batch" /\ t \in tasks /\ t.pc = "delay"
    /\ \E at \in RenderFailsAt :
         resources' = IF at = "navigate" THEN Acquire(resources, "browser", t.cur)
                                          ELSE resources
    /\ \E err \in RenderErrors :
         /\ BCatch(t, err)
         /\ fetchLog' = [fetchLog EXCEPT ![t.cur].primary = "fail", ![t.cur].error = err]
    /\ UNCHANGED << impl, phase, runs, base, baseDomain, visited, queue, scheduled,
                    q, workingLinks, externalLinks, duplicateContentIssues,
                    brokenResources, contentHashes, pagesScanned, admissions,
                    frontierLog,
                    seedLog, sitemapLog, sharedBrowser >>

\* The render returns the document: duplicate detection and the audits, up to
\* await page.$$eval.
B_Render(t) ==
    /\ impl = "batch" /\ t \in tasks /\ t.pc = "delay"
    /\ Fetchable(t.cur)
    /\ LET doc == Site[Href(t.cur)] IN
         /\ duplicateContentIssues' =
                DuplicateRecords(t.cur, doc.hash, contentHashes, duplicateContentIssues)
         /\ contentHashes' = RecordHash(t.cur, doc.hash, contentHashes)
    /\ fetchLog' = [fetchLog EXCEPT ![t.cur].primary = "ok"]
    /\ resources' = Acquire(resources, "browser", t.cur)
    /\ tasks' = (tasks \ {t}) \cup {[t EXCEPT !.pc = "eval"]}
    /\ UNCHANGED << impl, phase, runs, base, baseDomain, visited, queue, scheduled,
                    q, workingLinks, brokenLinks, externalLinks, brokenResources,
                    pagesScanned, performanceMetrics, admissions, frontierLog,
                    seedLog, sitemapLog, sharedBrowser >>

\* page.$$eval rejects, after the document was fetched.
B_EvalFails(t) ==
    /\ impl = "batch" /\ t \in tasks /\ t.pc = "eval"
    /\ \E err \in RenderErrors :
         /\ BCatch(t, err)
         /\ fetchLog' = [fetchLog EXCEPT ![t.cur].error = err]
    /\ UNCHANGED << impl, phase, runs, base, baseDomain, visited, queue, scheduled,
                    q, workingLinks, externalLinks, duplicateContentIssues,
                    brokenResources, contentHashes, pagesScanned, admissions,
                    frontierLog,
                    seedLog, sitemapLog, resources, sharedBrowser >>

\* page.$$eval returns the anchors: link processing and extraction, up to
\* await Promise.all(resourceChecks); or the extraction throws.
B_Links(t) ==
    /\ impl = "batch" /\ t \in tasks /\ t.pc = "eval"
    /\ LET al == AfterLinks(t.cur) IN
         /\ queue' = al.queue
         /\ externalLinks' = al.externalLinks
         /\ frontierLog' = frontierLog \cup NewlyQueued(queue, al.queue)
    /\ IF Site[Href(t.cur)].throws
         THEN /\ BCatch(t, ExtractError)
              /\ fetchLog' = [fetchLog EXCEPT ![t.cur].error = ExtractError,
                                              ![t.cur].links = TRUE]
         ELSE /\ tasks' = (tasks \ {t}) \cup {[t EXCEPT !.pc = "checks"]}
              /\ fetchLog' = [fetchLog EXCEPT ![t.cur].links = TRUE]
              /\ UNCHANGED << brokenLinks, performanceMetrics >>
    /\ UNCHANGED << impl, phase, runs, base, baseDomain, visited, scheduled, q,
                    workingLinks, duplicateContentIssues, brokenResources,
                    contentHashes, pagesScanned, admissions, seedLog, sitemapLog, resources, sharedBrowser >>

\* The resource checks have settled (and Lighthouse, for the main page, which
\* catches its own errors): the page is a working link; finally closes the browser.
B_Settle(t) ==
    /\ impl = "batch" /\ t \in tasks /\ t.pc = "checks"
    /\ brokenResources' = ResourceChecks(t.cur, brokenResources)
    /\ workingLinks' = Append(workingLinks, [url |-> t.cur, status |-> "200"])
    /\ \E lh \in LighthouseOutcomes :
         /\ (lh = "none") <=> (t.cur # base)
         /\ resources' = FinallyClose(runLighthouseAnalysis(resources, t.cur, lh), t.cur)
    /\ tasks' = tasks \ {t}
    /\ UNCHANGED << impl, phase, runs, base, baseDomain, visited, queue, scheduled,
                    q, brokenLinks, externalLinks, duplicateContentIssues,
                    contentHashes, pagesScanned, performanceMetrics, admissions,
                    fetchLog, frontierLog,
                    seedLog, sitemapLog, sharedBrowser >>

\* The fallback GET returns a response: the page is pushed as a working link.
B_Fallback(t) ==
    /\ impl = "batch" /\ t \in tasks /\ t.pc = "fallback"
    /\ Fetchable(t.cur)
    /\ workingLinks' = Append(workingLinks, [url |-> t.cur, status |-> "200"])
    /\ fetchLog' = [fetchLog EXCEPT ![t.cur].fallback = "ok"]
    /\ resources' = FinallyClose(resources, t.cur)
    /\ tasks' = tasks \ {t}
    /\ UNCHANGED << impl, phase, runs, base, baseDomain, visited, queue, scheduled,
                    q, brokenLinks, externalLinks, duplicateContentIssues,
                    brokenResources, contentHashes, pagesScanned,
                    performanceMetrics, admissions, frontierLog,
                    seedLog, sitemapLog, sharedBrowser >>

\* The fallback GET rejects: only a console message.
B_FallbackFails(t) ==
    /\ impl = "batch" /\ t \in tasks /\ t.pc = "fallback"
    /\ \E axiosErr \in AxiosErrors :
         fetchLog' = [fetchLog EXCEPT ![t.cur].fallback = "fail",
                                      ![t.cur].fallbackError = axiosErr]
    /\ resources' = FinallyClose(resources, t.cur)
    /\ tasks' = tasks \ {t}
    /\ UNCHANGED << impl, phase, runs, base, baseDomain, visited, queue, scheduled,
                    q, results, contentHashes, pagesScanned, performanceMetrics,
                    admissions, frontierLog,
                    seedLog, sitemapLog, sharedBrowser >>

\* The while loop ends: the queue is empty or the budget is used up.
B_Exit ==
    /\ impl = "batch" /\ phase = "crawl"
    /\ tasks = {}
    /\ ~ (queue # << >> /\ Cardinality(visited) < MAX_PAGES)
    /\ phase' = "done"
    /\ UNCHANGED << impl, runs, base, baseDomain, visited, queue, scheduled, q,
                    tasks, results, contentHashes, pagesScanned,
                    performanceMetrics, admissions, fetchLog, frontierLog,
                    seedLog, sitemapLog, resources, sharedBrowser >>

\* ------------------------------------------------------ the specification
Next ==
    \/ RunCrawl /\ UNCHANGED << smVars, srvVars >>
    \/ Q_Worker /\ UNCHANGED << smVars, srvVars >>
    \/ \E t \in tasks : Q_RenderFails(t) /\ UNCHANGED << smVars, srvVars >>
    \/ \E t \in tasks : Q_Render(t) /\ UNCHANGED << smVars, srvVars >>
    \/ \E t \in tasks : Q_Settle(t) /\ UNCHANGED << smVars, srvVars >>
    \/ Q_Drain /\ UNCHANGED << smVars, srvVars >>
    \/ B_Batch /\ UNCHANGED << smVars, srvVars >>
    \/ \E t \in tasks : B_RenderFails(t) /\ UNCHANGED << smVars, srvVars >>
    \/ \E t \in tasks : B_Render(t) /\ UNCHANGED << smVars, srvVars >>
    \/ \E t \in tasks : B_EvalFails(t) /\ UNCHANGED << smVars, srvVars >>
    \/ \E t \in tasks : B_Links(t) /\ UNCHANGED << smVars, srvVars >>
    \/ \E t \in tasks : B_Settle(t) /\ UNCHANGED << smVars, srvVars >>
    \/ \E t \in tasks : B_Fallback(t) /\ UNCHANGED << smVars, srvVars >>
    \/ \E t \in tasks : B_FallbackFails(t) /\ UNCHANGED << smVars, srvVars >>
    \/ B_Exit /\ UNCHANGED << smVars, srvVars >>

Spec == Init /\ [][Next]_vars

\* The event loop runs whatever is ready: a pending timer, a settled request,
\* the next task of the pool.
FairSpec == Init /\ [][Next]_vars /\ WF_vars(Next)

\* ------------------------------------------------------- overlapping runs
\* A second POST /api/crawl arrives while a run is crawling: the handler calls
\* runCrawl at once, and runCrawl runs up to its first await (the GET of
\* robots.txt), which is the reset of the module-level state.  After this
\* step only the pages in flight are followed to their end: in phase
\* "overlap" no worker or batch starts.
Overlap_RunCrawl ==
    /\ phase = "crawl"
    /\ runs < MaxRuns
    /\ ResetState
    /\ runs' = runs + 1
    /\ phase' = "overlap"
    /\ UNCHANGED << impl, base, baseDomain, queue, scheduled, q, tasks,
                    admissions, fetchLog, frontierLog, seedLog, sitemapLog, resources, sharedBrowser >>

NextOverlap ==
    \/ Next
    \/ Overlap_RunCrawl /\ UNCHANGED << smVars, srvVars >>

SpecOverlap == Init /\ [][NextOverlap]_vars

TypeOK ==
    /\ Cardinality(tasks) <= CONCURRENT_REQUESTS
    /\ phase \in {"idle", "crawl", "done", "failed", "aborted", "overlap"}

\* ====================================================== sitemap resolution
\* getSitemapUrls(sitemapUrl, seen) of the queue crawler, as the stack of its
\* calls.  A step is the stretch of the innermost call between two awaits.
SmFrame(url) == [url |-> url, pc |-> "get", i |-> 0, urls |-> << >>]

SmInit ==
    /\ impl = "queue"
    /\ Loaded
    /\ SrvLoaded
    /\ smDocs \in { d \in [SitemapUrls -> IndexDocs \cup UrlsetDocs \cup {ErrorDoc}] :
                      d[SmC].kind # "sitemapindex" }
    /\ smStack = << >>
    /\ smSeen = {}
    /\ smResult = << >>
    /\ smPc = "idle"
    /\ smFetches = [u \in SitemapUrls |-> 0]
    /\ smParent = EmptyMap
    /\ smRevisits = {}

SmSeenHas_Never(sitemapUrl, seen) == FALSE

\* if (seen.has(sitemapUrl)) return [];
SmSeenHas(sitemapUrl, seen) == sitemapUrl \in seen

SmTop == smStack[Len(smStack)]

\* The innermost call returns val: the outermost call's value is the result,
\* any other resumes its caller's loop with urls = urls.concat(subUrls).
SmReturn(val) ==
    LET rest == SubSeq(smStack, 1, Len(smStack) - 1) IN
    IF rest = << >>
    THEN /\ smStack' = << >>
         /\ smResult' = val
         /\ smPc' = "done"
    ELSE LET caller == rest[Len(rest)] IN
         /\ smStack' = [rest EXCEPT ![Len(rest)] =
                           [caller EXCEPT !.urls = @ \o val, !.i = @ + 1]]
         /\ UNCHANGED << smResult, smPc >>

\* A call getSitemapUrls(sitemapUrl, seen) made by caller (NoLoc: by runCrawl),
\* up to its axios.get.
SmCall(sitemapUrl, caller) ==
    IF SmSeenHas(sitemapUrl, smSeen)
    THEN /\ smRevisits' = smRevisits \cup {sitemapUrl}
         /\ smStack' = [smStack EXCEPT ![Len(smStack)].i = @ + 1]
         /\ UNCHANGED << smSeen, smParent, smResult, smPc >>
    ELSE /\ Len(smStack) < MaxDepth
         /\ smSeen' = smSeen \cup {sitemapUrl}
         /\ smStack' = Append(smStack, SmFrame(sitemapUrl))
         /\ smParent' = [u \in DOMAIN smParent \cup {sitemapUrl} |->
                            IF u = sitemapUrl /\ u \notin DOMAIN smParent
                            THEN caller ELSE smParent[u]]
         /\ UNCHANGED << smRevisits, smResult, smPc >>

\* The outermost call, with the default seen = new Set().
Sm_Resolve ==
    /\ smPc = "idle"
    /\ smPc' = "run"
    /\ smSeen' = {SmA}
    /\ smStack' = << SmFrame(SmA) >>
    /\ smParent' = [u \in {SmA} |-> NoLoc]
    /\ UNCHANGED << smDocs, smResult, smFetches, smRevisits >>

\* axios.get answers and the document is parsed: a failure is caught and gives
\* [], a urlset gives its locs (a loc-less entry throws inside map), a
\* sitemapindex enters the loop, anything else gives [].
Sm_Get ==
    /\ smPc = "run"
    /\ SmTop.pc = "get"
    /\ LET sitemapUrl == SmTop.url
           parsed     == smDocs[sitemapUrl]
       IN
       /\ smFetches' = [smFetches EXCEPT ![sitemapUrl] = @ + 1]
       /\ IF parsed.kind = "urlset" /\ parsed.entries # << >>
          THEN IF \E k \in DOMAIN parsed.entries : parsed.entries[k] = NoLoc
               THEN SmReturn(<< >>)
               ELSE SmReturn(parsed.entries)
          ELSE IF parsed.kind = "sitemapindex" /\ parsed.entries # << >>
               THEN /\ smStack' = [smStack EXCEPT ![Len(smStack)].pc = "loop",
                                                  ![Len(smStack)].i = 1]
                    /\ UNCHANGED << smResult, smPc >>
               ELSE SmReturn(<< >>)
    /\ UNCHANGED << smDocs, smSeen, smParent, smRevisits >>

\* One turn of for (const sm of parsed.sitemapindex.sitemap): the recursive
\* call on sm.loc[0], or the return of urls after the last entry.
Sm_Loop ==
    /\ smPc = "run"
    /\ SmTop.pc = "loop"
    /\ LET entries == smDocs[SmTop.url].entries IN
       IF SmTop.i > Len(entries)
       THEN /\ SmReturn(SmTop.urls)
            /\ UNCHANGED << smSeen, smParent, smRevisits >>
       ELSE IF entries[SmTop.i] = NoLoc
            THEN /\ SmReturn(<< >>)
                 /\ UNCHANGED << smSeen, smParent, smRevisits >>
            ELSE SmCall(entries[SmTop.i], SmTop.url)
    /\ UNCHANGED << smDocs, smFetches >>

SmNext ==
    \/ Sm_Resolve /\ UNCHANGED << crawlVars, srvVars >>
    \/ Sm_Get /\ UNCHANGED << crawlVars, srvVars >>
    \/ Sm_Loop /\ UNCHANGED << crawlVars, srvVars >>

\* The resolution is one chain of awaits: whenever a step is possible the event
\* loop takes it.
SpecSitemap == SmInit /\ [][SmNext]_vars /\ WF_vars(SmNext)

\* ============================================================== the server
\* rateLimit(req, res, next): the entry of ip after the call, and whether next()
\* was called (otherwise the response is 429).
rateLimit(counts, ip, t) ==
    LET fresh    == [count |-> 0, resetTime |-> t + RATE_LIMIT_WINDOW]
        userData == IF ip \in DOMAIN counts THEN counts[ip] ELSE fresh
        current  == IF t > userData.resetTime THEN fresh ELSE userData
        limited  == current.count >= MAX_REQUESTS_PER_HOUR
        after    == IF limited THEN current ELSE [current EXCEPT !.count = @ + 1]
    IN [counts |-> [i \in DOMAIN counts \cup {ip} |-> IF i = ip THEN after ELSE counts[i]],
        next |-> ~ limited]

\* The routes that have rateLimit in front of their handler.
RateLimited(endpoint) == endpoint \in {"crawl", "pdf", "excel"}

\* What the handler of endpoint answers.  No handler reads a token.
Handler(endpoint, token, fileName) ==
    IF endpoint \in {"pdf", "excel"} /\ fileName \notin ReportFiles
    THEN [endpoint |-> endpoint, token |-> token, status |-> 404, data |-> FALSE]
    ELSE [endpoint |-> endpoint, token |-> token, status |-> 200,
          data |-> endpoint \in ReportsEndpoints]

\* A request arrives and is answered.  (A crawl request is answered when its
\* run ends; the crawl itself is the other specifications' subject.)
Srv_Request ==
    \E ip \in Ips, endpoint \in Endpoints, token \in Tokens, fileName \in FileNames :
        LET rl == IF RateLimited(endpoint) THEN rateLimit(requestCounts, ip, now)
                  ELSE [counts |-> requestCounts, next |-> TRUE]
        IN
        /\ endpoint \in {"crawl", "list"} => fileName \in ReportFiles
        /\ requestCounts' = rl.counts
        /\ passLog' = IF RateLimited(endpoint) /\ rl.next
                      THEN [passLog EXCEPT ![ip] = Append(@, now)]
                      ELSE passLog
        /\ lastResponse' =
              IF rl.next THEN Handler(endpoint, token, fileName)
              ELSE [endpoint |-> endpoint, token |-> token, status |-> 429, data |-> FALSE]
        /\ UNCHANGED << now, lastCleanup >>

\* The setInterval callback, every RATE_LIMIT_WINDOW: entries past their
\* resetTime are deleted.
CleanupDue == now > 0 /\ now % RATE_LIMIT_WINDOW = 0 /\ lastCleanup < now

Srv_Cleanup ==
    /\ CleanupDue
    /\ requestCounts' = [ip \in { i \in DOMAIN requestCounts :
                                    ~ (now > requestCounts[i].resetTime) } |->
                            requestCounts[ip]]
    /\ lastCleanup' = now
    /\ UNCHANGED << now, passLog, lastResponse >>

\* Time passes.
Srv_Tick ==
    /\ now < MaxTime
    /\ ~ CleanupDue
    /\ now' = now + 1
    /\ UNCHANGED << requestCounts, lastCleanup, passLog, lastResponse >>

SrvNext ==
    \/ Srv_Request /\ UNCHANGED << crawlVars, smVars >>
    \/ Srv_Cleanup /\ UNCHANGED << crawlVars, smVars >>
    \/ Srv_Tick /\ UNCHANGED << crawlVars, smVars >>

SrvInit ==
    /\ impl = "batch"
    /\ Loaded
    /\ SmOff
    /\ SrvLoaded

SpecServer == SrvInit /\ [][SrvNext]_vars

\* ================================================================ claims
\* What the run's fetches did, read off fetchLog.
Finished(u) == \A t \in tasks : t.cur # u

FallbackIssued(u) ==
    \/ fetchLog[u].fallback # "none"
    \/ \E t \in tasks : t.cur = u /\ t.pc = "fallback"

C2_BudgetCeiling == Cardinality(visited) <= MAX_PAGES

\* The budget is used up while a discovered URL is still unvisited.
C2_Witness ==
    /\ phase = "done"
    /\ Cardinality(visited) = MAX_PAGES
    /\ \E u \in frontierLog : u \notin visited /\ normalizeUrl(u) \notin visited

\* C3: the fingerprint index keeps, for every fingerprint, the URL of the page
\* that first completed fetch-and-hash in the current run; every duplicate
\* record names that page as duplicateOf, a page has at most one record, and
\* no record has url equal to duplicateOf.
C3_DuplicateAuthority ==
    \A i \in DOMAIN duplicateContentIssues :
        LET r == duplicateContentIssues[i] IN
        /\ r.url # r.duplicateOf
        /\ r.duplicateOf \in DOMAIN fetchLog
        /\ fetchLog[r.duplicateOf].primary = "ok"
        /\ Site[Href(r.duplicateOf)].hash = Site[Href(r.url)].hash
        /\ Cardinality(RecordsOf(duplicateContentIssues, r.url)) = 1

\* C4: the fallback GET of an admitted URL is issued if and only if the
\* primary rendering fetch of that URL failed.
C4_FallbackIffPrimaryFailed ==
    \A u \in DOMAIN fetchLog :
        /\ FallbackIssued(u) => fetchLog[u].primary = "fail"
        /\ (fetchLog[u].primary = "fail" /\ Finished(u)) => FallbackIssued(u)

\* C5: a link whose origin differs from the seed's origin is appended to the
\* external links and is never pushed onto the Frontier queue.
C5_SameOriginFiltering ==
    /\ \A u \in frontierLog : Origin(u) = baseDomain
    /\ \A u \in DOMAIN fetchLog :
         fetchLog[u].links =>
            \A i \in DOMAIN Site[Href(u)].links :
                LET fullHref == FullHref(Site[Href(u)].links[i], base) IN
                (fullHref # << >> /\ Origin(fullHref) # baseDomain)
                    => \E j \in DOMAIN externalLinks :
                          /\ externalLinks[j].from = u
                          /\ externalLinks[j].to = fullHref

\* The sitemaps whose document was fetched, and what a urlset lists.
SmFetched == { u \in SitemapUrls : smFetches[u] > 0 }

SmWellFormed(u) ==
    /\ smDocs[u].kind # "error"
    /\ \A k \in DOMAIN smDocs[u].entries : smDocs[u].entries[k] # NoLoc

SmLeaves(u) ==
    IF smDocs[u].kind = "urlset" THEN Range(smDocs[u].entries) ELSE {}

\* u and every sitemap on the chain of calls that led to u is well formed.
RECURSIVE SmChainWellFormed(_)
SmChainWellFormed(u) ==
    IF u = NoLoc THEN TRUE
    ELSE SmWellFormed(u) /\ SmChainWellFormed(smParent[u])

\* C6 as stated, safety part: each sitemap URL is fetched at most once and the
\* result is the union of the leaf URLs of the (well-formed) urlset documents
\* reached.
C6_UnionOfReachedUrlsets ==
    /\ \A u \in SitemapUrls : smFetches[u] <= 1
    /\ smPc = "done" =>
         Range(smResult) =
             UNION { SmLeaves(u) : u \in { v \in SmFetched : SmWellFormed(v) } }

\* C6, amended: every resolution terminates, also on cyclic indexes; each
\* sitemap URL is fetched at most once; and the result is the union of the leaf
\* URLs of the urlset documents reached through well-formed documents only: a
\* sitemap whose document has an entry without <loc> yields the empty list and
\* with it drops what its earlier children returned.  A revisited sitemap
\* contributes the empty list and the resolution goes on.
C6_SitemapResolution ==
    /\ <>(smPc = "done")
    /\ [](\A u \in SitemapUrls : smFetches[u] <= 1)
    /\ [](Len(smStack) < MaxDepth)
    /\ [](smPc = "done" =>
            Range(smResult) =
                UNION { SmLeaves(u) :
                          u \in { v \in SmFetched : SmChainWellFormed(v) } })

\* A resolution over a cyclic index has finished, met a sitemap again, and
\* still returns the leaf URLs of the urlset reached.
C6_Witness ==
    /\ smPc = "done"
    /\ SmA \in smRevisits
    /\ smDocs[SmB].kind = "sitemapindex"
    /\ smResult # << >>

\* C7: at the start of every runCrawl call all session state is empty: the
\* visited set, the fingerprint index, every result array and all counters.
C7_FreshSession ==
    (phase = "crawl" /\ admissions = EmptyMap) =>
        /\ visited = {}
        /\ contentHashes = EmptyMap
        /\ workingLinks = << >> /\ brokenLinks = << >> /\ externalLinks = << >>
        /\ duplicateContentIssues = << >> /\ brokenResources = << >>
        /\ pagesScanned = 0
        /\ performanceMetrics = [pagesCrawled |-> 0, errors |-> 0]

\* C8: a URL whose primary render failed and whose fallback GET succeeded has
\* a working-links record and no broken-links record.
C8_FallbackSuccessNotBroken ==
    \A u \in DOMAIN fetchLog :
        (fetchLog[u].primary = "fail" /\ fetchLog[u].fallback = "ok") =>
            /\ RecordsOf(workingLinks, u) # {}
            /\ RecordsOf(brokenLinks, u) = {}

\* The signals of a double failure a record may carry: the HTTP status of the
\* fallback's response if there was one, otherwise the error code of the
\* fallback or the error signal of the render.
BestSignals(u) ==
    IF fetchLog[u].fallbackError.response # ""
    THEN { fetchLog[u].fallbackError.response }
    ELSE { fetchLog[u].fallbackError.code, StatusOf(fetchLog[u].error) }

\* C9: a URL whose primary render and fallback GET both failed has exactly
\* one broken-links record, carrying the HTTP status code if one was obtained
\* and otherwise a transport error code, and no working-links record.
C9_DoubleFailureRecord ==
    \A u \in DOMAIN fetchLog :
        (fetchLog[u].primary = "fail" /\ fetchLog[u].fallback = "fail") =>
            /\ Cardinality(RecordsOf(brokenLinks, u)) = 1
            /\ \A i \in RecordsOf(brokenLinks, u) : brokenLinks[i].status \in BestSignals(u)
            /\ RecordsOf(workingLinks, u) = {}

\* The distinct crawlable URLs the Frontier has held in this run.
Crawlable == { normalizeUrl(u) : u \in { v \in seedLog \cup frontierLog : Fetchable(v) } }

\* No fetch of the run failed and no page's processing threw.
AllSucceeded ==
    \A u \in DOMAIN fetchLog :
        fetchLog[u].primary = "ok" /\ fetchLog[u].error = NoError

\* C10: when the Frontier has held at least MAX_PAGES distinct crawlable URLs
\* and every fetch succeeded, the run ends with exactly MAX_PAGES pages
\* admitted, all of them working links, and no other URL fetched.
C10_ExactBudget ==
    (phase = "done" /\ AllSucceeded /\ Cardinality(Crawlable) >= MAX_PAGES) =>
        /\ Cardinality(visited) = MAX_PAGES
        /\ DOMAIN fetchLog = visited
        /\ \A u \in visited : Cardinality(RecordsOf(workingLinks, u)) = 1
        /\ brokenLinks = << >>

\* Such a run has ended and left a discovered crawlable URL unfetched.
C10_Witness ==
    /\ phase = "done" /\ AllSucceeded /\ Cardinality(Crawlable) > MAX_PAGES
    /\ Cardinality(visited) = MAX_PAGES
    /\ \A u \in visited : RecordsOf(workingLinks, u) # {}

\* runCrawl has seeded the queue and no worker or batch has started yet.
JustSeeded ==
    /\ phase = "crawl"
    /\ visited = {} /\ scheduled = {} /\ tasks = {}

\* C11: after seeding, the queue holds exactly one entry per distinct
\* normalized URL among the seed and the sitemap URLs: no two entries
\* normalize to the same URL, and the normalized entries are the normalized
\* seed and sitemap URLs.
C11_SeedCollapse ==
    JustSeeded =>
        /\ \A i, j \in DOMAIN queue :
               normalizeUrl(queue[i]) = normalizeUrl(queue[j]) => i = j
        /\ { normalizeUrl(queue[i]) : i \in DOMAIN queue } =
               {normalizeUrl(base)}
                   \cup { normalizeUrl(u) : u \in Range(sitemapLog.urls) }

\* C12: while a run is crawling, no step removes an entry from its visited
\* set or its result arrays or lowers its counters, also when another
\* runCrawl call starts in the meantime.
C12_NoCrossRunInterference ==
    [][(phase = "crawl" /\ phase' \in {"crawl", "overlap"}) =>
          /\ visited \subseteq visited'
          /\ Len(workingLinks) <= Len(workingLinks')
          /\ Len(brokenLinks) <= Len(brokenLinks')
          /\ Len(externalLinks) <= Len(externalLinks')
          /\ pagesScanned <= pagesScanned'
          /\ performanceMetrics.pagesCrawled <= performanceMetrics'.pagesCrawled]_vars

\* The key under which crawlPage registers the string u in visited.
Key(u) == IF impl = "queue" THEN normalizeUrl(u) ELSE u

\* The processing of page u failed: the render, or a later step of the try block.
PageFailed(u) == fetchLog[u].primary = "fail" \/ fetchLog[u].error # NoError

\* C13: a failure while processing a page stays in the page: it is recorded
\* (a broken link for a failed page, a broken resource for an unreachable
\* one), every started run completes, and a completed run has processed every
\* URL its queue held unless the budget was used up.
C13_FailuresStayInPage ==
    /\ [](\A u \in DOMAIN fetchLog : PageFailed(u) => RecordsOf(brokenLinks, u) # {})
    /\ [](phase = "crawl" => <>(phase = "done"))
    /\ [](phase = "done" =>
            \/ Cardinality(visited) >= MAX_PAGES
            \/ \A u \in seedLog \cup frontierLog : Key(u) \in visited)

\* A run has completed in which one page failed to render, the processing of
\* another threw, a resource was unreachable, and a page discovered through
\* links was still crawled successfully.
C13_Witness ==
    /\ phase = "done"
    /\ \E u \in DOMAIN fetchLog : fetchLog[u].primary = "fail"
    /\ \E u \in DOMAIN fetchLog : fetchLog[u].error = ExtractError
    /\ brokenResources # << >>
    /\ \E i \in DOMAIN workingLinks : workingLinks[i].url \notin seedLog

\* The document of sitemap u cannot be used: the fetch or the parse failed,
\* it lists nothing, or an entry has no loc.
SitemapUnusable(docs, u) ==
    \/ docs[u].kind = "error"
    \/ docs[u].entries = << >>
    \/ \E k \in DOMAIN docs[u].entries : docs[u].entries[k] = NoLoc

\* The sitemap discovery of the run got nothing out of sitemap.xml.
DiscoveryFailed ==
    \/ sitemapLog.probe \in {"reject", "404"}
    \/ sitemapLog.probe = "200" /\ SitemapUnusable(sitemapLog.site, SmA)

\* C14: whatever fails in the sitemap resolution, runCrawl is not aborted: a
\* sitemap that cannot be used yields the empty list, a failed discovery seeds
\* the queue with the seed URL alone, a failed child leaves the URLs of the
\* other children, and the crawl starts from the seed and completes.
C14_SitemapFailureTolerated ==
    /\ [](phase # "failed")
    /\ [](impl = "queue" /\ sitemapLog.probe = "200" =>
            \A u \in SitemapUrls :
                SitemapUnusable(sitemapLog.site, u) =>
                    getSitemapUrls(sitemapLog.site, u, {}).urls = << >>)
    /\ [](impl = "queue" /\ JustSeeded =>
            /\ queue[1] = normalizeUrl(base) /\ q = << normalizeUrl(base) >>
            /\ DiscoveryFailed => queue = << normalizeUrl(base) >>
            /\ sitemapLog.site = SiteChildFails /\ sitemapLog.probe = "200" =>
                   Range(queue) = {normalizeUrl(base), << O >>, Other})
    /\ [](phase = "crawl" /\ impl = "queue" => <>(phase = "done"))
    /\ [](phase = "done" /\ impl = "queue" => normalizeUrl(base) \in visited)

\* A run whose sitemap.xml could not be fetched has crawled the seed and a
\* page found through its links, and has completed.
C14_Witness ==
    /\ phase = "done" /\ impl = "queue"
    /\ sitemapLog.probe = "reject"
    /\ \E i, j \in DOMAIN workingLinks :
           workingLinks[i].url = normalizeUrl(base) /\ workingLinks[j].url # normalizeUrl(base)

\* Page u has a link to an internal URL that was neither crawled nor queued.
DiscardedLink(u) ==
    \E k \in DOMAIN Site[Href(u)].links :
        LET fullHref == FullHref(Site[Href(u)].links[k], base) IN
        /\ fullHref # << >>
        /\ IsInternal(fullHref, base, baseDomain)
        /\ Key(fullHref) \notin visited
        /\ fullHref \notin seedLog \cup frontierLog

\* C15: once visited holds MAX_PAGES entries, no step of the run admits or
\* starts to fetch a URL, and none adds an entry to the queue or to the pool;
\* and when the run completes no page is in flight: every admitted page has
\* its working or broken record.
C15_BudgetExhaustion ==
    /\ [][(Cardinality(visited) >= MAX_PAGES /\ runs' = runs) =>
            /\ visited' = visited
            /\ admissions' = admissions
            /\ DOMAIN fetchLog' = DOMAIN fetchLog
            /\ { t.cur : t \in tasks' } \subseteq { t.cur : t \in tasks }
            /\ Range(queue') \subseteq Range(queue) /\ Len(queue') <= Len(queue)
            /\ Len(q') <= Len(q)
            /\ frontierLog' = frontierLog]_vars
    /\ [](phase = "done" =>
            /\ tasks = {}
            /\ \A u \in visited :
                   RecordsOf(workingLinks, u) \cup RecordsOf(brokenLinks, u) # {})

\* A run has completed with the budget used up, and a page that was in
\* flight when the budget filled had its link to an uncrawled internal URL
\* discarded.
C15_Witness ==
    /\ phase = "done"
    /\ Cardinality(visited) = MAX_PAGES
    /\ \E u \in DOMAIN fetchLog : fetchLog[u].links /\ DiscardedLink(u)

\* C16: a response to a reports endpoint that carries report data answers a
\* request that presented the valid reports access token.
C16_ReportsNeedToken ==
    (lastResponse.endpoint \in ReportsEndpoints /\ lastResponse.token # "valid") =>
        /\ lastResponse.status \in {401, 403}
        /\ ~ lastResponse.data

\* The requests of ip that rateLimit let through in the interval of
\* RATE_LIMIT_WINDOW ticks that starts at t.
PassedIn(ip, t) ==
    { k \in DOMAIN passLog[ip] :
        t <= passLog[ip][k] /\ passLog[ip][k] < t + RATE_LIMIT_WINDOW }

\* C17: for every ip and every interval of the length of the window, rateLimit
\* lets at most MAX_REQUESTS_PER_HOUR requests through.
C17_RateLimitPerHour ==
    \A ip \in Ips, t \in 0..MaxTime :
        Cardinality(PassedIn(ip, t)) <= MAX_REQUESTS_PER_HOUR

\* C18: during a run the pending work, the array queue followed by the tasks
\* waiting in the pool, holds no URL twice; stated for the URLs that link
\* processing enqueued (the seed, which runCrawl puts into both, is left out).
C18_NoDuplicatePending ==
    phase = "crawl" =>
        LET pending == queue \o q IN
        \A i, j \in DOMAIN pending :
            (i # j /\ pending[i] \in frontierLog \ seedLog) => pending[i] # pending[j]

\* C19: the pages in flight, admitted and not yet finished, never number more
\* than CONCURRENT_REQUESTS.
C19_BoundedInFlight == Cardinality(tasks) <= CONCURRENT_REQUESTS

\* The pool is full while further work is pending.
C19_Witness ==
    /\ phase = "crawl"
    /\ Cardinality(tasks) = CONCURRENT_REQUESTS
    /\ queue \o q # << >>

\* C20: a rendering resource is open only while the crawlPage call that
\* acquired it is in flight: when the call has returned, on whatever path, and
\* so when the run has completed, its page or browser has been released.
C20_ResourcesReleased ==
    \A k \in DOMAIN resources :
        resources[k] = "open" => \E t \in tasks : t.cur = k[2]

\* C21: the browser of a run of the queue crawler is open exactly while the
\* run crawls, browser.close() is called once, with no crawlPage in flight,
\* and every run that launched a browser comes to close it.
C21_SharedBrowserLifetime ==
    /\ [](sharedBrowser.closes <= 1 /\ ~ sharedBrowser.busyAtClose)
    /\ [](sharedBrowser.state = "open" <=> (impl = "queue" /\ phase = "crawl"))
    /\ [](tasks # {} /\ impl = "queue" => sharedBrowser.state = "open")
    /\ [](phase = "done" /\ impl = "queue" =>
            sharedBrowser.state = "closed" /\ sharedBrowser.closes = 1)
    /\ [](sharedBrowser.state = "open" => <>(sharedBrowser.state = "closed"))

\* A run of the queue crawler with several pages, some of them crawled at the
\* same time, has closed its browser.
C21_Witness ==
    /\ impl = "queue" /\ phase = "done"
    /\ sharedBrowser.state = "closed"
    /\ Cardinality(visited) = MAX_PAGES

\* The rendering engine could not be launched in the run so far: the launch
\* of the shared browser failed (part_000), or a launch was attempted and
\* every attempted launch of a per-page browser failed (crawler.js).
LaunchImpossible ==
    \/ phase = "aborted"
    \/ /\ impl = "batch" /\ phase \in {"crawl", "done"}
       /\ \E u \in DOMAIN fetchLog : fetchLog[u].primary = "fail"
       /\ \A u \in DOMAIN fetchLog :
            /\ fetchLog[u].primary \in {"none", "fail"}
            /\ << "browser", u >> \notin DOMAIN resources

\* C22: when the rendering engine cannot be launched the run is aborted: no
\* URL has been admitted or fetched and the run does not reach its report.
C22_LaunchFailureAborts ==
    LaunchImpossible =>
        /\ visited = {} /\ tasks = {}
        /\ workingLinks = << >> /\ brokenLinks = << >>
        /\ phase # "done"

\* C23: every page with a working record, whichever fetch produced it, went
\* through duplicate detection (its hash is in contentHashes, recorded by the
\* step that fetched its document) and through link processing.
C23_SameSuccessProcessing ==
    \A u \in DOMAIN fetchLog :
        RecordsOf(workingLinks, u) # {} =>
            /\ fetchLog[u].primary = "ok"
            /\ Site[Href(u)].hash \in DOMAIN contentHashes
            /\ fetchLog[u].links

\* Page u ended Failed: it has a broken record and no working record.
Failed(u) == RecordsOf(brokenLinks, u) # {} /\ RecordsOf(workingLinks, u) = {}

\* Link processing ran on page u and its document has a link to v.
LinksTo(u, v) ==
    /\ fetchLog[u].links
    /\ \E i \in DOMAIN Site[Href(u)].links : FullHref(Site[Href(u)].links[i], base) = v

\* C24: at the end of a run every URL that link processing pushed onto the
\* queue was found on a page that did not end Failed.
C24_FailedContributesNoLinks ==
    phase = "done" =>
        \A v \in frontierLog \ seedLog :
            \E u \in DOMAIN fetchLog : ~ Failed(u) /\ LinksTo(u, v)

\* C25: every run that starts crawling completes, and when it has completed
\* either the budget is used up or nothing is pending and every URL the run
\* discovered, by seeding or in a link, has been visited.
C25_RunCompletes ==
    /\ [](phase = "crawl" => <>(phase = "done" /\ tasks = {}))
    /\ [](phase = "done" =>
            \/ Cardinality(visited) >= MAX_PAGES
            \/ /\ queue = << >> /\ q = << >>
               /\ \A u \in seedLog \cup frontierLog : Key(u) \in visited)

\* A run has completed below the budget, with URLs discovered in links and
\* an empty queue.
C25_Witness ==
    /\ phase = "done"
    /\ Cardinality(visited) < MAX_PAGES
    /\ frontierLog # {}
    /\ queue = << >>

\* s is not a crawlable link: a mailto:, tel:, javascript:, data: or blob:
\* reference, or a string that is no absolute URL.
NotCrawlable(s) == NonCrawlableScheme(s) \/ ~ ValidUrl(s)

\* C26: a string that is not a crawlable link, wherever it was met, is never
\* pending, never in visited, never fetched and has no broken record.
C26_NonCrawlableDropped ==
    \A s \in Range(queue) \cup Range(q) \cup visited \cup DOMAIN fetchLog
             \cup { brokenLinks[i].url : i \in DOMAIN brokenLinks } :
        ~ NotCrawlable(s)

\* The try block of page u ran to its end: the document was fetched, nothing
\* threw, the resource checks settled and the working record was pushed.
Settled(u) ==
    /\ fetchLog[u].primary = "ok" /\ fetchLog[u].error = NoError
    /\ RecordsOf(workingLinks, u) # {}

C28_VisitedSameOrigin ==
    phase \in {"crawl", "done"} =>
        \A u \in visited :
            \/ u = base \/ u = normalizeUrl(base)
            \/ IsInternal(u, base, baseDomain)

\* C29: no URL that link processing pushed onto the queue as internal is the
\* target of a record of externalLinks.
C29_ExclusiveClassification ==
    \A v \in frontierLog :
        \A i \in DOMAIN externalLinks : externalLinks[i].to # v

\* C30: when a run has completed, performanceMetrics.errors is the number of
\* broken-links records of the run.
C30_ErrorCount ==
    phase = "done" => performanceMetrics.errors = Len(brokenLinks)

====
